---- MODULE Spec2Model ----
(***************************************************************************)
(* Model of the coupon redemption service (CouponService.couponRedeem):    *)
(* reward validation, per-day and total limit checks, selection of an      *)
(* unused coupon and the insertion of the PlayerCoupon row.                *)
(*                                                                         *)
(* Time is an integer clock; a calendar day is DayLen consecutive ticks.   *)
(* Spec runs redeem calls one after another (each call is one step);       *)
(* SpecConc runs up to MaxProc calls whose database round trips interleave.*)
(***************************************************************************)
EXTENDS Integers, Sequences, FiniteSets, TLC

\* ---- bounds of the model ----
MaxPlayer == 2
MaxReward == 2
MaxCoupon == 2
MaxLimit == 2
MaxTime == 2
DayLen == 2
MaxRedeem == 3
MaxProc == 2
MaxRewardConc == 1

Players == 1..MaxPlayer
RewardIds == 1..MaxReward
Times == 0..MaxTime
Procs == 1..MaxProc

\* ---- the six business failures (exact messages) and success ----
InvalidReward == "Invalid reward!"
RewardNotStarted == "Reward has not started!"
RewardExpired == "Reward has expired!"
DailyLimitExceeded == "Daily reward limit exceeded!"
TotalLimitExceeded == "Total reward limit exceeded!"
NoCouponAvailable == "Coupon not found for this reward"
Ok == "ok"
Errors == {InvalidReward, RewardNotStarted, RewardExpired,
           DailyLimitExceeded, TotalLimitExceeded, NoCouponAvailable}

VARIABLES
    rewards,        \* Reward table: reward id -> [startDate, endDate, perDayLimit, totalLimit]
    coupons,        \* Coupon table: coupon id -> id of the Reward it belongs to
    playerCoupons,  \* PlayerCoupon table: row id -> [player, coupon, redeemedAt]
    now,            \* the wall clock
    last,           \* the response of the last completed redeem call
    calls           \* SpecConc: the position and locals of each call in flight

vars == <<rewards, coupons, playerCoupons, now, last, calls>>

\* ---- seeded tables ----
RewardRows ==
    { r \in [startDate : Times, endDate : Times,
             perDayLimit : 0..MaxLimit, totalLimit : 0..MaxLimit] :
        r.startDate <= r.endDate }

RewardTables ==
    UNION { [1..n -> RewardRows] : n \in 1..MaxReward }

CouponTables(rw) ==
    UNION { [1..n -> DOMAIN rw] : n \in 0..MaxCoupon }

NoResponse == [player |-> 0, reward |-> 0, result |-> "none", coupon |-> 0]
Idle == [pc |-> "idle", playerId |-> 0, rewardId |-> 0, usedCoupon |-> {}, coupon |-> 0]

\* ---- validateReward ----
\* mutant: a lookup that falls back to the first row when the id matches none
findRewardFirstRow(rewardId) ==
    IF rewardId \in DOMAIN rewards THEN {rewardId} ELSE {1}

\* rewardsRepository.findOne({where: {id: rewardId}}): the row found, if any
findReward(rewardId) ==
    IF rewardId \in DOMAIN rewards THEN {rewardId} ELSE {}

\* the id of the Reward entity the lookup returned
foundReward(rewardId) == CHOOSE x \in findReward(rewardId) : TRUE

\* mutant: the start of the window is not checked
validateRewardEndOnly(rewardId, t) ==
    IF findReward(rewardId) = {} THEN InvalidReward
    ELSE IF t > rewards[foundReward(rewardId)].endDate THEN RewardExpired
    ELSE Ok

\* mutant: the window excludes its two ends
validateRewardExclusive(rewardId, t) ==
    IF findReward(rewardId) = {} THEN InvalidReward
    ELSE IF rewards[foundReward(rewardId)].startDate >= t THEN RewardNotStarted
    ELSE IF t >= rewards[foundReward(rewardId)].endDate THEN RewardExpired
    ELSE Ok

validateReward(rewardId, t) ==
    IF findReward(rewardId) = {} THEN InvalidReward
    ELSE IF rewards[foundReward(rewardId)].startDate > t THEN RewardNotStarted
    ELSE IF t > rewards[foundReward(rewardId)].endDate THEN RewardExpired
    ELSE Ok

\* ---- validateRewardLimits ----
startOfDay(t) == t - (t % DayLen)
endOfDay(t) == startOfDay(t) + DayLen - 1
\* mutant: the window excludes its two ends
BetweenExclusive(x, lo, hi) == lo < x /\ x < hi

Between(x, lo, hi) == lo <= x /\ x <= hi

\* mutant: the daily count is not restricted to the player
dailyRedeemAnyPlayer(pcs, playerId, rewardId, t) ==
    Cardinality({ i \in DOMAIN pcs :
        /\ coupons[pcs[i].coupon] = rewardId
        /\ Between(pcs[i].redeemedAt, startOfDay(t), endOfDay(t)) })

dailyRedeem(pcs, playerId, rewardId, t) ==
    Cardinality({ i \in DOMAIN pcs :
        /\ pcs[i].player = playerId
        /\ coupons[pcs[i].coupon] = rewardId
        /\ Between(pcs[i].redeemedAt, startOfDay(t), endOfDay(t)) })

\* mutant: the total count is not restricted to the reward
totalRedeemAnyReward(pcs, playerId, rewardId) ==
    Cardinality({ i \in DOMAIN pcs : pcs[i].player = playerId })

totalRedeem(pcs, playerId, rewardId) ==
    Cardinality({ i \in DOMAIN pcs :
        /\ pcs[i].player = playerId
        /\ coupons[pcs[i].coupon] = rewardId })

\* mutant: the daily limit is reached only when it is exceeded
dailyCheckOffByOne(pcs, playerId, rewardId, t) ==
    IF dailyRedeem(pcs, playerId, rewardId, t) > rewards[rewardId].perDayLimit
    THEN DailyLimitExceeded ELSE Ok

\* mutant: the daily count is compared with the total limit
dailyCheckTotalLimit(pcs, playerId, rewardId, t) ==
    IF dailyRedeem(pcs, playerId, rewardId, t) >= rewards[rewardId].totalLimit
    THEN DailyLimitExceeded ELSE Ok

dailyCheck(pcs, playerId, rewardId, t) ==
    IF dailyRedeem(pcs, playerId, rewardId, t) >= rewards[rewardId].perDayLimit
    THEN DailyLimitExceeded ELSE Ok

\* mutant: the total limit is reached only when it is exceeded
totalCheckOffByOne(pcs, playerId, rewardId) ==
    IF totalRedeem(pcs, playerId, rewardId) > rewards[rewardId].totalLimit
    THEN TotalLimitExceeded ELSE Ok

totalCheck(pcs, playerId, rewardId) ==
    IF totalRedeem(pcs, playerId, rewardId) >= rewards[rewardId].totalLimit
    THEN TotalLimitExceeded ELSE Ok

\* mutant: the total limit is checked before the daily limit
validateRewardLimitsTotalFirst(pcs, playerId, rewardId, t) ==
    IF totalCheck(pcs, playerId, rewardId) # Ok THEN TotalLimitExceeded
    ELSE dailyCheck(pcs, playerId, rewardId, t)

validateRewardLimits(pcs, playerId, rewardId, t) ==
    IF dailyCheck(pcs, playerId, rewardId, t) # Ok THEN DailyLimitExceeded
    ELSE totalCheck(pcs, playerId, rewardId)

\* ---- validateCoupon ----
\* playerCouponRepository.find({select: {id}}).map(item => item.id):
\* the ids of the PlayerCoupon rows themselves.
\* mutant: the query result is dropped, no id is excluded
usedCouponNone(pcs) == {}

usedCoupon(pcs) == { i : i \in DOMAIN pcs }

\* couponRepository.findOne({id: Not(In(usedCoupon)), Reward: {id: rewardId}}):
\* the rows the query matches; findOne returns any one of them.
couponCandidates(used, rewardId) ==
    { c \in DOMAIN coupons : c \notin used /\ coupons[c] = rewardId }

\* ---- addPlayerCoupon ----
\* redeemedAt is not set by the service: the column defaults to the insertion time.
redeemedAtDefault(t) == t

\* mutant: save updates the row that already references the coupon, if any
addPlayerCouponUpsert(pcs, playerId, couponId, t) ==
    IF \E i \in DOMAIN pcs : pcs[i].coupon = couponId
    THEN [i \in DOMAIN pcs |->
             IF pcs[i].coupon = couponId
             THEN [player |-> playerId, coupon |-> couponId,
                   redeemedAt |-> redeemedAtDefault(t)]
             ELSE pcs[i]]
    ELSE Append(pcs, [player |-> playerId, coupon |-> couponId,
                      redeemedAt |-> redeemedAtDefault(t)])

addPlayerCoupon(pcs, playerId, couponId, t) ==
    Append(pcs, [player |-> playerId, coupon |-> couponId,
                 redeemedAt |-> redeemedAtDefault(t)])

Response(playerId, rewardId, result, couponId) ==
    [player |-> playerId, reward |-> rewardId, result |-> result, coupon |-> couponId]

\* ---- couponRedeem, one whole call ----
\* mutant: the limits are validated before the reward's window
couponRedeemResultLimitsFirst(pcs, playerId, rewardId, t) ==
    IF findReward(rewardId) = {} THEN InvalidReward
    ELSE IF validateRewardLimits(pcs, playerId, foundReward(rewardId), t) # Ok
         THEN validateRewardLimits(pcs, playerId, foundReward(rewardId), t)
    ELSE IF validateReward(rewardId, t) # Ok THEN validateReward(rewardId, t)
    ELSE IF couponCandidates(usedCoupon(pcs), rewardId) = {} THEN NoCouponAvailable
    ELSE Ok

\* the outcome of the three validations, in the order couponRedeem runs them;
\* the limits are validated for the Reward entity validateReward returned
couponRedeemResult(pcs, playerId, rewardId, t) ==
    IF validateReward(rewardId, t) # Ok THEN validateReward(rewardId, t)
    ELSE IF validateRewardLimits(pcs, playerId, foundReward(rewardId), t) # Ok
         THEN validateRewardLimits(pcs, playerId, foundReward(rewardId), t)
    ELSE IF couponCandidates(usedCoupon(pcs), rewardId) = {} THEN NoCouponAvailable
    ELSE Ok

\* mutant: the coupon is assigned before the limits are validated
couponRedeemAssignFirst(playerId, rewardId) ==
    /\ Len(playerCoupons) < MaxRedeem
    /\ \A q \in Procs : calls[q].pc = "idle"
    /\ IF validateReward(rewardId, now) # Ok
       THEN /\ last' = Response(playerId, rewardId, validateReward(rewardId, now), 0)
            /\ UNCHANGED playerCoupons
       ELSE IF couponCandidates(usedCoupon(playerCoupons), rewardId) = {}
       THEN /\ last' = Response(playerId, rewardId, NoCouponAvailable, 0)
            /\ UNCHANGED playerCoupons
       ELSE \E c \in couponCandidates(usedCoupon(playerCoupons), rewardId) :
            /\ playerCoupons' = addPlayerCoupon(playerCoupons, playerId, c, now)
            /\ LET res == validateRewardLimits(playerCoupons, playerId,
                                               foundReward(rewardId), now) IN
               last' = Response(playerId, rewardId, res, IF res = Ok THEN c ELSE 0)
    /\ UNCHANGED <<rewards, coupons, now, calls>>

couponRedeem(playerId, rewardId) ==
    /\ Len(playerCoupons) < MaxRedeem
    /\ \A q \in Procs : calls[q].pc = "idle"
    /\ LET res == couponRedeemResult(playerCoupons, playerId, rewardId, now) IN
       IF res # Ok
       THEN /\ last' = Response(playerId, rewardId, res, 0)
            /\ UNCHANGED playerCoupons
       ELSE \E c \in couponCandidates(usedCoupon(playerCoupons), rewardId) :
            /\ playerCoupons' = addPlayerCoupon(playerCoupons, playerId, c, now)
            /\ last' = Response(playerId, rewardId, Ok, c)
    /\ UNCHANGED <<rewards, coupons, now, calls>>

Tick ==
    /\ now < MaxTime
    /\ now' = now + 1
    /\ UNCHANGED <<rewards, coupons, playerCoupons, last, calls>>

Init ==
    /\ rewards \in RewardTables
    /\ coupons \in CouponTables(rewards)
    /\ playerCoupons = <<>>
    /\ now = 0
    /\ last = NoResponse
    /\ calls = [q \in Procs |-> Idle]

Redeem == \E p \in Players, r \in RewardIds : couponRedeem(p, r)

Next == Redeem \/ Tick

Spec == Init /\ [][Next]_vars

\* ---- couponRedeem, one database round trip per step (SpecConc) ----
Finish(q, result, couponId) ==
    /\ last' = Response(calls[q].playerId, calls[q].rewardId, result, couponId)
    /\ calls' = [calls EXCEPT ![q] = Idle]

Goto(q, label) == calls' = [calls EXCEPT ![q].pc = label]

\* the call arrives; rewardsRepository.findOne and the window checks
StepValidateReward(q, playerId, rewardId) ==
    /\ calls[q].pc = "idle"
    /\ Len(playerCoupons) < MaxRedeem
    /\ IF validateReward(rewardId, now) # Ok
       THEN /\ last' = Response(playerId, rewardId, validateReward(rewardId, now), 0)
            /\ UNCHANGED calls
       ELSE /\ calls' = [calls EXCEPT ![q] =
                           [Idle EXCEPT !.pc = "dailyRedeem",
                                        !.playerId = playerId,
                                        !.rewardId = rewardId]]
            /\ UNCHANGED last
    /\ UNCHANGED <<rewards, coupons, playerCoupons, now>>

\* playerCouponRepository.count over today's window, and the daily check
StepDailyRedeem(q) ==
    /\ calls[q].pc = "dailyRedeem"
    /\ IF dailyCheck(playerCoupons, calls[q].playerId,
                     foundReward(calls[q].rewardId), now) # Ok
       THEN Finish(q, DailyLimitExceeded, 0)
       ELSE Goto(q, "totalRedeem") /\ UNCHANGED last
    /\ UNCHANGED <<rewards, coupons, playerCoupons, now>>

\* playerCouponRepository.count without a date, and the total check
StepTotalRedeem(q) ==
    /\ calls[q].pc = "totalRedeem"
    /\ IF totalCheck(playerCoupons, calls[q].playerId,
                     foundReward(calls[q].rewardId)) # Ok
       THEN Finish(q, TotalLimitExceeded, 0)
       ELSE Goto(q, "usedCoupon") /\ UNCHANGED last
    /\ UNCHANGED <<rewards, coupons, playerCoupons, now>>

\* playerCouponRepository.find: the ids read now are used by the next query
StepUsedCoupon(q) ==
    /\ calls[q].pc = "usedCoupon"
    /\ calls' = [calls EXCEPT ![q].pc = "findCoupon",
                              ![q].usedCoupon = usedCoupon(playerCoupons)]
    /\ UNCHANGED <<rewards, coupons, playerCoupons, now, last>>

\* couponRepository.findOne with the ids read before
StepFindCoupon(q) ==
    /\ calls[q].pc = "findCoupon"
    /\ IF couponCandidates(calls[q].usedCoupon, calls[q].rewardId) = {}
       THEN Finish(q, NoCouponAvailable, 0)
       ELSE /\ \E c \in couponCandidates(calls[q].usedCoupon, calls[q].rewardId) :
                 calls' = [calls EXCEPT ![q].pc = "save", ![q].coupon = c]
            /\ UNCHANGED last
    /\ UNCHANGED <<rewards, coupons, playerCoupons, now>>

\* playerCouponRepository.save, then the coupon is returned
StepSave(q) ==
    /\ calls[q].pc = "save"
    /\ playerCoupons' = addPlayerCoupon(playerCoupons, calls[q].playerId,
                                        calls[q].coupon, now)
    /\ Finish(q, Ok, calls[q].coupon)
    /\ UNCHANGED <<rewards, coupons, now>>

Arrive == \E q \in Procs, p \in Players, r \in RewardIds : StepValidateReward(q, p, r)
DailyRedeem == \E q \in Procs : StepDailyRedeem(q)
TotalRedeem == \E q \in Procs : StepTotalRedeem(q)
UsedCoupon == \E q \in Procs : StepUsedCoupon(q)
FindCoupon == \E q \in Procs : StepFindCoupon(q)
Save == \E q \in Procs : StepSave(q)

NextConc ==
    Arrive \/ DailyRedeem \/ TotalRedeem \/ UsedCoupon \/ FindCoupon \/ Save \/ Tick

\* SpecConc seeds fewer campaigns: the interleavings are what it explores.
InitConc ==
    /\ Init
    /\ Len(rewards) <= MaxRewardConc

SpecConc == InitConc /\ [][NextConc]_vars


\* ======================================================================
\* Vocabulary of the properties, defined on the tables alone
\* ======================================================================
DayOf(t) == t \div DayLen

\* the PlayerCoupon rows of a player whose coupon belongs to a reward
RowsOf(pcs, p, r) ==
    { i \in DOMAIN pcs : pcs[i].player = p /\ coupons[pcs[i].coupon] = r }

RedeemedOnDay(pcs, p, r, d) ==
    Cardinality({ i \in RowsOf(pcs, p, r) : DayOf(pcs[i].redeemedAt) = d })

RedeemedEver(pcs, p, r) == Cardinality(RowsOf(pcs, p, r))

\* the coupon ids some PlayerCoupon row references
Referenced(pcs) == { pcs[i].coupon : i \in DOMAIN pcs }

Unassigned(pcs, r) ==
    { c \in DOMAIN coupons : coupons[c] = r /\ c \notin Referenced(pcs) }

Exists(r) == r \in DOMAIN rewards

InWindow(r, t) ==
    Exists(r) /\ rewards[r].startDate <= t /\ t <= rewards[r].endDate

\* ======================================================================
\* C1: under sequential redeem calls every coupon id is referenced by at
\* most one PlayerCoupon row (an assigned coupon is never handed out again).
\* ======================================================================
C1_NoDoubleAssignment ==
    \A i, j \in DOMAIN playerCoupons :
        i # j => playerCoupons[i].coupon # playerCoupons[j].coupon

\* ======================================================================
\* C2: when the player already has perDayLimit redemptions of the reward
\* today, the next redeem of that player for that reward fails with
\* DailyLimitExceeded.
\* ======================================================================
\* C2 as stated, whatever else holds of the reward (taken for N >= 1, so
\* that redemptions did succeed before the attempt).
C2_DailyLimit_AsStated ==
    [][\A p \in Players, r \in RewardIds :
        ( /\ couponRedeem(p, r)
          /\ Exists(r)
          /\ rewards[r].perDayLimit >= 1
          /\ RedeemedOnDay(playerCoupons, p, r, DayOf(now)) = rewards[r].perDayLimit )
        => last'.result = DailyLimitExceeded]_vars

\* C2 amended: the attempt is made inside the reward's validity window.
C2_DailyLimit ==
    [][\A p \in Players, r \in RewardIds :
        ( /\ couponRedeem(p, r)
          /\ InWindow(r, now)
          /\ RedeemedOnDay(playerCoupons, p, r, DayOf(now)) = rewards[r].perDayLimit )
        => last'.result = DailyLimitExceeded]_vars

C2_Witness ==
    /\ last.result = DailyLimitExceeded
    /\ rewards[last.reward].perDayLimit >= 1
    /\ RedeemedOnDay(playerCoupons, last.player, last.reward, DayOf(now))
           = rewards[last.reward].perDayLimit
    /\ RedeemedEver(playerCoupons, last.player, last.reward)
           < rewards[last.reward].totalLimit
    /\ Unassigned(playerCoupons, last.reward) # {}

\* ======================================================================
\* C3: when the player already has totalLimit redemptions of the reward
\* (on any days) and perDayLimit is larger than totalLimit, the next redeem
\* of that player for that reward fails with TotalLimitExceeded.
\* ======================================================================
\* C3 as stated, whatever else holds of the reward (taken for N >= 1, so
\* that redemptions did succeed before the attempt).
C3_TotalLimit_AsStated ==
    [][\A p \in Players, r \in RewardIds :
        ( /\ couponRedeem(p, r)
          /\ Exists(r)
          /\ rewards[r].totalLimit >= 1
          /\ rewards[r].perDayLimit > rewards[r].totalLimit
          /\ RedeemedEver(playerCoupons, p, r) = rewards[r].totalLimit )
        => last'.result = TotalLimitExceeded]_vars

\* C3 amended: the attempt is made inside the reward's validity window.
C3_TotalLimit ==
    [][\A p \in Players, r \in RewardIds :
        ( /\ couponRedeem(p, r)
          /\ InWindow(r, now)
          /\ rewards[r].perDayLimit > rewards[r].totalLimit
          /\ RedeemedEver(playerCoupons, p, r) = rewards[r].totalLimit )
        => last'.result = TotalLimitExceeded]_vars

\* the limit was reached on an earlier day; a coupon is still unassigned
C3_Witness ==
    /\ last.result = TotalLimitExceeded
    /\ rewards[last.reward].totalLimit >= 1
    /\ rewards[last.reward].perDayLimit > rewards[last.reward].totalLimit
    /\ RedeemedEver(playerCoupons, last.player, last.reward)
           = rewards[last.reward].totalLimit
    /\ RedeemedOnDay(playerCoupons, last.player, last.reward, DayOf(now)) = 0
    /\ Unassigned(playerCoupons, last.reward) # {}

\* ======================================================================
\* C4: a successful redeem(playerId, rewardId) adds exactly one PlayerCoupon
\* row, which links playerId to the returned coupon; the returned coupon
\* belongs to rewardId and no row referenced it before the call.
\* ======================================================================
C4_SuccessfulRedeem ==
    [][\A p \in Players, r \in RewardIds :
        (couponRedeem(p, r) /\ last'.result = Ok)
        => /\ Len(playerCoupons') = Len(playerCoupons) + 1
           /\ SubSeq(playerCoupons', 1, Len(playerCoupons)) = playerCoupons
           /\ playerCoupons'[Len(playerCoupons')].player = p
           /\ playerCoupons'[Len(playerCoupons')].coupon = last'.coupon
           /\ coupons[last'.coupon] = r
           /\ last'.coupon \notin Referenced(playerCoupons)]_vars

\* ======================================================================
\* C5: a redeem call that fails with one of the six errors leaves the
\* persisted tables as they were: no PlayerCoupon row is added or changed.
\* ======================================================================
C5_FailureChangesNothing ==
    [][\A p \in Players, r \in RewardIds :
        (couponRedeem(p, r) /\ last'.result \in Errors)
        => /\ playerCoupons' = playerCoupons
           /\ rewards' = rewards
           /\ coupons' = coupons]_vars

\* a call failed on a limit or on the pool while rows and a free coupon existed
C5_Witness ==
    /\ last.result \in {DailyLimitExceeded, TotalLimitExceeded}
    /\ playerCoupons # <<>>
    /\ Unassigned(playerCoupons, last.reward) # {}

\* ======================================================================
\* C6: redeem of a reward whose startDate is later than the current time
\* fails with RewardNotStarted, for every player, whatever the counts, the
\* limits and the coupon pool are.
\* ======================================================================
C6_NotStarted ==
    [][\A p \in Players, r \in RewardIds :
        (couponRedeem(p, r) /\ Exists(r) /\ rewards[r].startDate > now)
        => last'.result = RewardNotStarted]_vars

\* not started, and the limit and coupon checks would have failed as well
C6_Witness ==
    /\ last.result = RewardNotStarted
    /\ rewards[last.reward].startDate > now
    /\ rewards[last.reward].perDayLimit = 0
    /\ Unassigned(playerCoupons, last.reward) = {}

\* ======================================================================
\* C7: redeem of a reward whose endDate is earlier than the current time
\* fails with RewardExpired, whatever the counts, the limits and the coupon
\* pool are.
\* ======================================================================
C7_Expired ==
    [][\A p \in Players, r \in RewardIds :
        (couponRedeem(p, r) /\ Exists(r) /\ rewards[r].endDate < now)
        => last'.result = RewardExpired]_vars

\* expired, and the player had reached the daily limit today
C7_Witness ==
    /\ last.result = RewardExpired
    /\ rewards[last.reward].endDate < now
    /\ rewards[last.reward].perDayLimit >= 1
    /\ RedeemedOnDay(playerCoupons, last.player, last.reward, DayOf(now))
           >= rewards[last.reward].perDayLimit

\* ======================================================================
\* C8: redeem of a rewardId that no Reward row has fails with InvalidReward,
\* and nothing else is done.
\* ======================================================================
C8_InvalidReward ==
    [][\A p \in Players, r \in RewardIds :
        (couponRedeem(p, r) /\ ~Exists(r))
        => /\ last'.result = InvalidReward
           /\ last'.coupon = 0
           /\ playerCoupons' = playerCoupons]_vars

C8_Witness ==
    /\ last.result = InvalidReward
    /\ ~Exists(last.reward)
    /\ playerCoupons # <<>>

\* ======================================================================
\* C9: when the reward is inside its window, the player is below both
\* limits, and every coupon of the reward is referenced by a PlayerCoupon
\* row (or it has none), redeem fails with NoCouponAvailable.
\* ======================================================================
C9_NoCouponAvailable ==
    [][\A p \in Players, r \in RewardIds :
        ( /\ couponRedeem(p, r)
          /\ InWindow(r, now)
          /\ RedeemedOnDay(playerCoupons, p, r, DayOf(now)) < rewards[r].perDayLimit
          /\ RedeemedEver(playerCoupons, p, r) < rewards[r].totalLimit
          /\ Unassigned(playerCoupons, r) = {} )
        => last'.result = NoCouponAvailable]_vars

\* ======================================================================
\* C10: with interleaved calls two redeems of one player and reward can
\* both pass the limit checks before either inserts its row, so the
\* player's count exceeds a limit; the excess comes from calls in flight
\* only, so it stays below the number of concurrent calls.
\* ======================================================================
C10_ExcessBoundedByConcurrency ==
    \A p \in Players, r \in DOMAIN rewards :
        /\ RedeemedEver(playerCoupons, p, r) <= rewards[r].totalLimit + (MaxProc - 1)
        /\ \A d \in 0..DayOf(MaxTime) :
               RedeemedOnDay(playerCoupons, p, r, d)
                   <= rewards[r].perDayLimit + (MaxProc - 1)

\* the limit is exceeded while no call is left in flight
C10_Witness ==
    /\ \A q \in Procs : calls[q].pc = "idle"
    /\ \E p \in Players, r \in DOMAIN rewards :
           /\ rewards[r].totalLimit >= 1
           /\ RedeemedEver(playerCoupons, p, r) > rewards[r].totalLimit


\* the number of PlayerCoupon rows that reference a coupon
Refs(pcs, c) == Cardinality({ i \in DOMAIN pcs : pcs[i].coupon = c })

\* ======================================================================
\* C11: with interleaved calls two redeems of one reward can both select
\* the same coupon before either inserts its row, so one coupon ends up
\* referenced by two PlayerCoupon rows. A coupon stops being selectable
\* once the table holds as many rows as its id, so the rows that reference
\* it beyond that come from calls in flight only.
\* ======================================================================
C11_ReuseBoundedByConcurrency ==
    \A c \in DOMAIN coupons :
        Refs(playerCoupons, c) <= c + (MaxProc - 1)

\* coupon 1 is excluded as soon as one row exists: two references to it
\* mean both calls selected it while the table was still empty
C11_Witness ==
    /\ \A q \in Procs : calls[q].pc = "idle"
    /\ 1 \in DOMAIN coupons
    /\ Refs(playerCoupons, 1) = 2


\* ======================================================================
\* C12: under sequential redeem calls from an empty PlayerCoupon table,
\* in every state and for every player and reward, the player's rows for
\* the reward number at most totalLimit, and those redeemed within any one
\* calendar day at most perDayLimit.
\* ======================================================================
C12_LimitsHold ==
    \A p \in Players, r \in DOMAIN rewards :
        /\ RedeemedEver(playerCoupons, p, r) <= rewards[r].totalLimit
        /\ \A d \in 0..DayOf(MaxTime) :
               RedeemedOnDay(playerCoupons, p, r, d) <= rewards[r].perDayLimit

\* a player stands exactly at both limits, reached over two days
C12_Witness ==
    \E p \in Players, r \in DOMAIN rewards :
        /\ rewards[r].perDayLimit >= 1
        /\ RedeemedEver(playerCoupons, p, r) = rewards[r].totalLimit
        /\ RedeemedOnDay(playerCoupons, p, r, DayOf(now)) = rewards[r].perDayLimit
        /\ RedeemedOnDay(playerCoupons, p, r, DayOf(now)) < RedeemedEver(playerCoupons, p, r)


\* ======================================================================
\* C13: selection returns a coupon of the requested reward that no
\* PlayerCoupon row references; so whenever the reward is inside its
\* window, the player is below both limits and such a coupon exists,
\* redeem succeeds (with such a coupon) and does not fail with
\* NoCouponAvailable.
\* ======================================================================
C13_SelectsUnassigned ==
    [][\A p \in Players, r \in RewardIds :
        ( /\ couponRedeem(p, r)
          /\ InWindow(r, now)
          /\ RedeemedOnDay(playerCoupons, p, r, DayOf(now)) < rewards[r].perDayLimit
          /\ RedeemedEver(playerCoupons, p, r) < rewards[r].totalLimit
          /\ Unassigned(playerCoupons, r) # {} )
        => /\ last'.result = Ok
           /\ last'.coupon \in Unassigned(playerCoupons, r)]_vars

\* C13, its second half alone: with an unreferenced coupon at hand the call
\* does not fail with NoCouponAvailable.
C13_NoSpuriousNoCoupon ==
    [][\A p \in Players, r \in RewardIds :
        ( /\ couponRedeem(p, r)
          /\ Unassigned(playerCoupons, r) # {} )
        => last'.result # NoCouponAvailable]_vars


\* ======================================================================
\* C14: the checks run in a fixed order and the first one that fails gives
\* the error: reward lookup, not started, expired, daily limit, total
\* limit, and only then coupon availability. A call at both limits fails
\* with DailyLimitExceeded; a call at a limit fails with the limit error
\* also when no coupon is left.
\* ======================================================================
FirstFailing(p, r, t, pcs) ==
    IF ~Exists(r) THEN InvalidReward
    ELSE IF rewards[r].startDate > t THEN RewardNotStarted
    ELSE IF t > rewards[r].endDate THEN RewardExpired
    ELSE IF RedeemedOnDay(pcs, p, r, DayOf(t)) >= rewards[r].perDayLimit
         THEN DailyLimitExceeded
    ELSE IF RedeemedEver(pcs, p, r) >= rewards[r].totalLimit THEN TotalLimitExceeded
    ELSE "none"

C14_FirstFailingCheck ==
    [][\A p \in Players, r \in RewardIds :
        couponRedeem(p, r)
        => IF FirstFailing(p, r, now, playerCoupons) # "none"
           THEN last'.result = FirstFailing(p, r, now, playerCoupons)
           ELSE last'.result \in {NoCouponAvailable, Ok}]_vars

\* both limits reached and no coupon left: the daily limit is reported
C14_Witness ==
    /\ last.result = DailyLimitExceeded
    /\ rewards[last.reward].perDayLimit >= 1
    /\ RedeemedEver(playerCoupons, last.player, last.reward)
           >= rewards[last.reward].totalLimit
    /\ rewards[last.reward].totalLimit >= 1
    /\ Unassigned(playerCoupons, last.reward) = {}
    /\ couponCandidates(usedCoupon(playerCoupons), last.reward) = {}


\* ======================================================================
\* C15: the daily count holds only the rows redeemed within the current
\* calendar day: a player who reached perDayLimit of a reward on an earlier
\* day redeems it again on a later day, provided the reward is inside its
\* window, today's and the total count are below their limits and a coupon
\* of the reward is referenced by no row.
\* ======================================================================
ReachedDailyLimitBefore(pcs, p, r, t) ==
    /\ rewards[r].perDayLimit >= 1
    /\ \E d \in 0..DayOf(MaxTime) :
           /\ d < DayOf(t)
           /\ RedeemedOnDay(pcs, p, r, d) = rewards[r].perDayLimit

C15_RedeemAgainNextDay ==
    [][\A p \in Players, r \in RewardIds :
        ( /\ couponRedeem(p, r)
          /\ InWindow(r, now)
          /\ ReachedDailyLimitBefore(playerCoupons, p, r, now)
          /\ RedeemedOnDay(playerCoupons, p, r, DayOf(now)) < rewards[r].perDayLimit
          /\ RedeemedEver(playerCoupons, p, r) < rewards[r].totalLimit
          /\ Unassigned(playerCoupons, r) # {} )
        => last'.result = Ok]_vars

\* C15, the daily window alone: such a call is not refused for the daily limit.
C15_EarlierDaysNotCounted ==
    [][\A p \in Players, r \in RewardIds :
        ( /\ couponRedeem(p, r)
          /\ InWindow(r, now)
          /\ ReachedDailyLimitBefore(playerCoupons, p, r, now)
          /\ RedeemedOnDay(playerCoupons, p, r, DayOf(now)) < rewards[r].perDayLimit )
        => last'.result # DailyLimitExceeded]_vars


\* ======================================================================
\* C16: no step of redeem modifies or deletes a Reward, a Coupon or an
\* existing PlayerCoupon row: the PlayerCoupon table only grows at its end,
\* every existing row keeps its player, coupon and redeemedAt, and the
\* Reward and Coupon tables stay as they are.
\* ======================================================================
C16_OnlyAppends ==
    [][ /\ rewards' = rewards
        /\ coupons' = coupons
        /\ Len(playerCoupons') >= Len(playerCoupons)
        /\ SubSeq(playerCoupons', 1, Len(playerCoupons)) = playerCoupons ]_vars

\* a second row was added for a coupon the first row already references
C16_Witness ==
    /\ Len(playerCoupons) = 2
    /\ last.result = Ok
    /\ playerCoupons[1].coupon = playerCoupons[2].coupon
    /\ playerCoupons[1].player # playerCoupons[2].player
    /\ playerCoupons[1].redeemedAt < playerCoupons[2].redeemedAt


\* ======================================================================
\* C17: the limits are counted per (player, reward) pair: a redeem fails
\* with DailyLimitExceeded or TotalLimitExceeded only on the strength of
\* that player's own rows for that reward, never because of another
\* player's redemptions of the reward or the player's redemptions of
\* another reward.
\* ======================================================================
C17_LimitsPerPair ==
    [][\A p \in Players, r \in RewardIds :
        couponRedeem(p, r)
        => /\ last'.result = DailyLimitExceeded
                => RedeemedOnDay(playerCoupons, p, r, DayOf(now))
                       >= rewards[r].perDayLimit
           /\ last'.result = TotalLimitExceeded
                => RedeemedEver(playerCoupons, p, r) >= rewards[r].totalLimit]_vars

\* the call passed both limit checks while another player stood at the
\* limits of the same reward and the caller at the limits of another reward
C17_Witness ==
    /\ last.result \in {Ok, NoCouponAvailable}
    /\ \E p2 \in Players \ {last.player} :
           /\ rewards[last.reward].perDayLimit >= 1
           /\ RedeemedOnDay(playerCoupons, p2, last.reward, DayOf(now))
                  >= rewards[last.reward].perDayLimit
           /\ RedeemedEver(playerCoupons, p2, last.reward)
                  >= rewards[last.reward].totalLimit
    /\ \E r2 \in DOMAIN rewards \ {last.reward} :
           /\ rewards[r2].perDayLimit >= 1
           /\ RedeemedOnDay(playerCoupons, last.player, r2, DayOf(now))
                  >= rewards[r2].perDayLimit
           /\ RedeemedEver(playerCoupons, last.player, r2) >= rewards[r2].totalLimit


\* ======================================================================
\* C18: the validity window is inclusive at both ends: a redeem made when
\* the clock equals startDate or endDate passes the reward validation;
\* RewardNotStarted is raised only when startDate > now and RewardExpired
\* only when now > endDate.
\* ======================================================================
C18_WindowInclusive ==
    [][\A p \in Players, r \in RewardIds :
        (couponRedeem(p, r) /\ Exists(r))
        => /\ last'.result = RewardNotStarted => rewards[r].startDate > now
           /\ last'.result = RewardExpired => now > rewards[r].endDate
           /\ (now = rewards[r].startDate \/ now = rewards[r].endDate)
                => last'.result \notin {InvalidReward, RewardNotStarted, RewardExpired}]_vars

\* a coupon was redeemed at the instant that is both startDate and endDate
C18_Witness ==
    /\ last.result = Ok
    /\ now >= 1
    /\ rewards[last.reward].startDate = now
    /\ rewards[last.reward].endDate = now
    /\ playerCoupons[Len(playerCoupons)].redeemedAt = now

====
